---------------------------- MODULE Spec2Model ----------------------------
(***************************************************************************)
(* Model of server.py of chronosphere-mcp-server: the time-range resolver  *)
(* (parse_simple_time_range and the explicit strptime/strftime path), the  *)
(* log query client (query_logs: start request, bounded poll loop) and the *)
(* metric query client (query_metrics).                                    *)
(*                                                                         *)
(* Strings that the code inspects character by character (the simple range *)
(* token, the timestamps) are sequences of one-character strings.  Python  *)
(* datetimes are records of their seven fields and the date arithmetic is  *)
(* the proleptic Gregorian ordinal arithmetic of the datetime module.      *)
(***************************************************************************)
EXTENDS Integers, Sequences, FiniteSets, TLC

VARIABLES
    API_TOKEN,        \* module global read from the environment (line 17)
    pc,               \* position of the running call
    tool,             \* which entry point is running
    args,             \* the arguments the running call was bound to
    supplied_page_token, \* pagination token the caller holds for this call
    now,              \* <<>> or <<datetime>>: the clock reading of line 26
    start_time,       \* local start_time of query_logs (rebound at 65/70)
    end_time,         \* local end_time of query_logs (rebound at 65/71)
    trace,            \* requests.get and time.sleep calls made by the call
    start_params,     \* <<>> or <<params of the start request>>
    start_response,   \* <<>> or <<response to the start request>>
    query_id,         \* local query_id (line 88)
    poll_interval_ms, \* local poll_interval, kept in milliseconds (line 89)
    attempt,          \* loop variable of the poll loop (line 98)
    poll_response,    \* <<>> or <<latest poll response>>
    metrics_query,    \* <<>> or <<query expression sent by query_metrics>>
    result,           \* <<>> or <<value returned to the caller>>
    raised            \* exception propagated to the caller, exc = "" if none

vars == <<API_TOKEN, pc, tool, args, supplied_page_token, now, start_time,
          end_time, trace, start_params, start_response, query_id,
          poll_interval_ms, attempt, poll_response, metrics_query, result,
          raised>>

-----------------------------------------------------------------------------
(* Bounds of the model *)

\* longest simple range token enumerated exhaustively over Alphabet
MaxTokenLen == 3

-----------------------------------------------------------------------------
(* Characters and small string helpers *)

Digits == <<"0", "1", "2", "3", "4", "5", "6", "7", "8", "9">>

IsDigit(c) == \E i \in 1..Len(Digits) : Digits[i] = c

DigitVal(c) == (CHOOSE i \in 1..Len(Digits) : Digits[i] = c) - 1

\* int(): decimal value of a sequence of digit characters
RECURSIVE ToInt(_)
ToInt(ds) ==
    IF ds = <<>> THEN 0
    ELSE ToInt(SubSeq(ds, 1, Len(ds) - 1)) * 10 + DigitVal(ds[Len(ds)])

\* index of the first character at or after i that is no digit
RECURSIVE RunEnd(_, _)
RunEnd(s, i) ==
    IF i > Len(s) \/ ~IsDigit(s[i]) THEN i ELSE RunEnd(s, i + 1)

\* str.strip(): leading and trailing whitespace removed
RECURSIVE LStrip(_)
LStrip(s) == IF s # <<>> /\ Head(s) = " " THEN LStrip(Tail(s)) ELSE s

RECURSIVE RStrip(_)
RStrip(s) ==
    IF s # <<>> /\ s[Len(s)] = " " THEN RStrip(SubSeq(s, 1, Len(s) - 1)) ELSE s

Strip(s) == RStrip(LStrip(s))

\* decimal digits of n >= 0, no padding
RECURSIVE Decimal(_)
Decimal(n) ==
    IF n < 10 THEN <<Digits[n + 1]>>
    ELSE Decimal(n \div 10) \o <<Digits[(n % 10) + 1]>>

\* %m, %d, %H, %M, %S of strftime: two digits, zero padded
Pad2(n) == <<Digits[(n \div 10) + 1], Digits[(n % 10) + 1]>>

-----------------------------------------------------------------------------
(* datetime and timedelta arithmetic (proleptic Gregorian calendar) *)

MINYEAR == 1
MAXORDINAL == 3652059            \* date.max.toordinal()
MAXDELTADAYS == 999999999        \* timedelta.max.days
SecondsPerDay == 86400
SecondsPerHour == 3600
SecondsPerMinute == 60
HoursPerDay == 24
MinutesPerDay == 1440
DaysPerWeek == 7

IsLeap(y) == y % 4 = 0 /\ (y % 100 # 0 \/ y % 400 = 0)

DaysInMonth(y, m) ==
    IF m = 2 THEN (IF IsLeap(y) THEN 29 ELSE 28)
    ELSE IF m \in {4, 6, 9, 11} THEN 30 ELSE 31

RECURSIVE DaysBeforeMonth(_, _)
DaysBeforeMonth(y, m) ==
    IF m = 1 THEN 0 ELSE DaysBeforeMonth(y, m - 1) + DaysInMonth(y, m - 1)

DaysBeforeYear(y) ==
    (y - 1) * 365 + (y - 1) \div 4 - (y - 1) \div 100 + (y - 1) \div 400

DaysInYear(y) == IF IsLeap(y) THEN 366 ELSE 365

\* date.toordinal(): 1 for 0001-01-01
Ymd2Ord(y, m, d) == DaysBeforeYear(y) + DaysBeforeMonth(y, m) + d

\* date.fromordinal(): the year, then the month, holding ordinal n
OrdYear(n) ==
    CHOOSE y \in ((n - 1) \div 366 + 1)..((n - 1) \div 365 + 1) :
        DaysBeforeYear(y) < n /\ n <= DaysBeforeYear(y) + DaysInYear(y)

OrdMonth(y, n) ==
    CHOOSE m \in 1..12 :
        /\ DaysBeforeYear(y) + DaysBeforeMonth(y, m) < n
        /\ n <= DaysBeforeYear(y) + DaysBeforeMonth(y, m) + DaysInMonth(y, m)

Ord2Ymd(n) ==
    LET y == OrdYear(n)
        m == OrdMonth(y, n)
    IN  [year |-> y, month |-> m,
         day |-> n - DaysBeforeYear(y) - DaysBeforeMonth(y, m)]

DateTime(y, mo, d, h, mi, s, us) ==
    [year |-> y, month |-> mo, day |-> d, hour |-> h, minute |-> mi,
     second |-> s, microsecond |-> us]

SecondOfDay(dt) ==
    dt.hour * SecondsPerHour + dt.minute * SecondsPerMinute + dt.second

\* a slip in timedelta: every branch built as timedelta(days=value)
timedelta_days_only(unit, value) ==
    [ok |-> value <= MAXDELTADAYS, days |-> value, seconds |-> 0]

\* timedelta(minutes=v) / (hours=v) / (days=v) / (weeks=v), normalised to
\* days and seconds; OverflowError beyond timedelta.max
timedelta(unit, value) ==
    LET days == CASE unit = "m" -> value \div MinutesPerDay
                  [] unit = "h" -> value \div HoursPerDay
                  [] unit = "d" -> value
                  [] unit = "w" ->
                       IF value > MAXDELTADAYS \div DaysPerWeek
                       THEN MAXDELTADAYS + 1 ELSE value * DaysPerWeek
        secs == CASE unit = "m" -> (value % MinutesPerDay) * SecondsPerMinute
                  [] unit = "h" -> (value % HoursPerDay) * SecondsPerHour
                  [] OTHER -> 0
    IN  [ok |-> days <= MAXDELTADAYS, days |-> days, seconds |-> secs]

\* datetime - timedelta: OverflowError when the date leaves 1..MAXORDINAL
DateTimeSub(dt, delta) ==
    LET sod  == SecondOfDay(dt) - delta.seconds
        brw  == IF sod < 0 THEN 1 ELSE 0
        s    == sod + brw * SecondsPerDay
        ord  == Ymd2Ord(dt.year, dt.month, dt.day) - delta.days - brw
        ymd  == Ord2Ymd(ord)
    IN  IF ord < 1 \/ ord > MAXORDINAL
        THEN [ok |-> FALSE, dt |-> dt]
        ELSE [ok |-> TRUE,
              dt |-> DateTime(ymd.year, ymd.month, ymd.day,
                              s \div SecondsPerHour,
                              (s % SecondsPerHour) \div SecondsPerMinute,
                              s % SecondsPerMinute, dt.microsecond)]

\* strftime("%Y-%m-%dT%H:%M:%S.000Z"): the microsecond is not printed, the
\* fraction is the literal 000 (%Y as glibc prints it, without padding)
strftime(dt) ==
    Decimal(dt.year) \o <<"-">> \o Pad2(dt.month) \o <<"-">> \o Pad2(dt.day)
    \o <<"T">> \o Pad2(dt.hour) \o <<":">> \o Pad2(dt.minute) \o <<":">>
    \o Pad2(dt.second) \o <<".", "0", "0", "0", "Z">>


-----------------------------------------------------------------------------
(* Values *)

\* Python's None, where a string is expected; no real string equals it
None == "None"

\* falsiness of None and of the empty string (`not x`)
Falsy(x) == x = None \/ x = ""

NoError == [exc |-> "", msg |-> ""]

Error(exc, msg) == [exc |-> exc, msg |-> msg]

-----------------------------------------------------------------------------
(* parse_simple_time_range *)

Units == {"m", "h", "d", "w", "y"}

\* re.match(r"(\d+)([mhdwy])", t): the pattern is anchored at the start of
\* t only; \d+ takes the whole leading digit run, so the unit is the
\* character right after it, and whatever follows the unit is not looked at
ReMatch(t) ==
    LET e == RunEnd(t, 1)
    IN  IF e > 1 /\ e <= Len(t) /\ t[e] \in Units
        THEN [matched |-> TRUE, value |-> ToInt(SubSeq(t, 1, e - 1)),
              unit |-> t[e], end |-> e]
        ELSE [matched |-> FALSE, value |-> 0, unit |-> "", end |-> 0]

\* units with a branch at lines 27-34
HasBranch(unit) == unit \in {"m", "h", "d", "w"}

\* the function of lines 20-41, the clock reading of line 26 as a parameter;
\* value is <<start_time, end_time>> when exc = ""
parse_simple_time_range(simple_time_range, clock) ==
    LET m == ReMatch(Strip(simple_time_range))
    IN  IF ~m.matched
        THEN [exc |-> "ValueError", msg |-> "Invalid simple_time_range format",
              value |-> <<>>]
        ELSE IF ~HasBranch(m.unit)
        THEN [exc |-> "ValueError", msg |-> "Unsupported time unit",
              value |-> <<>>]
        ELSE LET delta == timedelta(m.unit, m.value)
                 st    == DateTimeSub(clock, delta)
             IN  IF ~delta.ok
                 THEN [exc |-> "OverflowError", msg |-> "timedelta",
                       value |-> <<>>]
                 ELSE IF ~st.ok
                 THEN [exc |-> "OverflowError", msg |-> "date value out of range",
                       value |-> <<>>]
                 ELSE [exc |-> "", msg |-> "",
                       value |-> <<strftime(st.dt), strftime(clock)>>]

-----------------------------------------------------------------------------
(* datetime.strptime(s, "%Y-%m-%dT%H:%M:%S.%fZ") *)

CharAt(s, i) == IF i >= 1 /\ i <= Len(s) THEN s[i] ELSE ""

Field(s, from, to) == SubSeq(s, from, to - 1)

\* one or two digits with a value in lo..hi (%m, %d, %H, %M, %S)
TwoDigitField(f, lo, hi) ==
    Len(f) \in {1, 2} /\ ToInt(f) >= lo /\ ToInt(f) <= hi

RECURSIVE Pow10(_)
Pow10(n) == IF n = 0 THEN 1 ELSE 10 * Pow10(n - 1)

\* Every directive is followed by a literal that is no digit, so a field is
\* the whole digit run before that literal.  The format is matched ignoring
\* case; %d also takes a blank followed by one digit.
strptime(s) ==
    LET yE == RunEnd(s, 1)
        mS == yE + 1
        mE == RunEnd(s, mS)
        dS == mE + 1
        dB == CharAt(s, dS) = " "
        dF == IF dB THEN dS + 1 ELSE dS
        dE == RunEnd(s, dF)
        hS == dE + 1
        hE == RunEnd(s, hS)
        iS == hE + 1
        iE == RunEnd(s, iS)
        sS == iE + 1
        sE == RunEnd(s, sS)
        fS == sE + 1
        fE == RunEnd(s, fS)
        Y  == Field(s, 1, yE)
        M  == Field(s, mS, mE)
        D  == Field(s, dF, dE)
        H  == Field(s, hS, hE)
        I  == Field(s, iS, iE)
        S  == Field(s, sS, sE)
        F  == Field(s, fS, fE)
        matches ==
            /\ Len(Y) = 4 /\ CharAt(s, yE) = "-"
            /\ TwoDigitField(M, 1, 12) /\ CharAt(s, mE) = "-"
            /\ IF dB THEN Len(D) = 1 /\ ToInt(D) >= 1
                     ELSE TwoDigitField(D, 1, 31)
            /\ CharAt(s, dE) \in {"T", "t"}
            /\ TwoDigitField(H, 0, 23) /\ CharAt(s, hE) = ":"
            /\ TwoDigitField(I, 0, 59) /\ CharAt(s, iE) = ":"
            /\ TwoDigitField(S, 0, 61) /\ CharAt(s, sE) = "."
            /\ Len(F) \in 1..6 /\ CharAt(s, fE) \in {"Z", "z"}
            /\ Len(s) = fE
        valid ==
            /\ ToInt(Y) >= MINYEAR
            /\ ToInt(D) <= DaysInMonth(ToInt(Y), ToInt(M))
            /\ ToInt(S) <= 59
    IN  IF matches /\ valid
        THEN [ok |-> TRUE,
              dt |-> DateTime(ToInt(Y), ToInt(M), ToInt(D), ToInt(H), ToInt(I),
                              ToInt(S), ToInt(F) * Pow10(6 - Len(F)))]
        ELSE [ok |-> FALSE, dt |-> DateTime(1, 1, 1, 0, 0, 0, 0)]


-----------------------------------------------------------------------------
(* Inputs *)

(* Literal strings, as sequences of characters *)

\* "1h30m"
T_1h30m ==
    <<"1", "h", "3", "0", "m">>

\* "1hour"
T_1hour ==
    <<"1", "h", "o", "u", "r">>

\* "abc"
T_abc ==
    <<"a", "b", "c">>

\* "10x"
T_10x ==
    <<"1", "0", "x">>

\* "  2w  "
T_2w_pad ==
    <<" ", " ", "2", "w", " ", " ">>

\* "800000d"
T_800000d ==
    <<"8", "0", "0", "0", "0", "0", "d">>

\* "150000w"
T_150000w ==
    <<"1", "5", "0", "0", "0", "0", "w">>

\* "99999999h"
T_99999999h ==
    <<"9", "9", "9", "9", "9", "9", "9", "9", "h">>

\* "2000000000m"
T_2000000000m ==
    <<"2", "0", "0", "0", "0", "0", "0", "0", "0", "0", "m">>

\* "999999999d"
T_999999999d ==
    <<"9", "9", "9", "9", "9", "9", "9", "9", "9", "d">>

\* "1000000000d"
T_1000000000d ==
    <<"1", "0", "0", "0", "0", "0", "0", "0", "0", "0", "d">>

\* "200000000w"
T_200000000w ==
    <<"2", "0", "0", "0", "0", "0", "0", "0", "0", "w">>

\* "90m x"
T_90m_x ==
    <<"9", "0", "m", " ", "x">>

\* "2025-05-08T18:08:35.123456Z"
TS_micro ==
    <<"2", "0", "2", "5", "-", "0", "5", "-", "0", "8", "T", "1", "8">>
    \o <<":", "0", "8", ":", "3", "5", ".", "1", "2", "3", "4", "5", "6", "Z">>

\* "2025-05-08T18:20:35.000Z"
TS_later ==
    <<"2", "0", "2", "5", "-", "0", "5", "-", "0", "8", "T", "1", "8">>
    \o <<":", "2", "0", ":", "3", "5", ".", "0", "0", "0", "Z">>

\* "2025-05-08 18:08:35"
TS_garbled ==
    <<"2", "0", "2", "5", "-", "0", "5", "-", "0", "8", " ", "1", "8">>
    \o <<":", "0", "8", ":", "3", "5">>

\* "2025-02-30T00:00:00.0Z"
TS_feb30 ==
    <<"2", "0", "2", "5", "-", "0", "2", "-", "3", "0", "T", "0", "0">>
    \o <<":", "0", "0", ":", "0", "0", ".", "0", "Z">>

\* characters of the exhaustively enumerated tokens: three digits, every
\* unit of the pattern, a letter that is no unit, a blank
Alphabet == {"0", "1", "3", "m", "h", "d", "w", "y", "x", " "}

ShortTokens == UNION {[1..n -> Alphabet] : n \in 0..MaxTokenLen}

\* longer tokens: text after a valid unit, the malformed tokens of the
\* documentation, and values at the limits of datetime and timedelta
LongTokens ==
    { T_1h30m, T_1hour, T_abc, T_10x, T_2w_pad,
      T_800000d, T_150000w, T_99999999h, T_2000000000m,
      T_999999999d, T_1000000000d, T_200000000w, T_90m_x }

Tokens == ShortTokens \cup LongTokens

\* clock readings of datetime.now(timezone.utc)
Nows ==
    { DateTime(2025, 5, 8, 18, 8, 35, 250000),
      DateTime(2024, 2, 29, 23, 59, 59, 999999),
      DateTime(2026, 1, 1, 0, 0, 30, 0) }

\* simple_time_range arguments given to query_logs
LogRanges == { <<>>, <<"1", "h">>, <<"3", "d">>, <<"1", "y">>, <<" ">>,
               T_abc, T_1h30m }

\* start_time / end_time arguments given to query_logs
StartTimes == { TS_micro, TS_garbled, <<>> }

EndTimes == { TS_later, TS_feb30, <<>> }

Queries == { "service=api" }

\* pagination tokens a caller may hold; "" when it holds none
PageTokens == { "", "page-2" }

\* values of CHRONOSPHERE_API_TOKEN: unset, set but empty, set
ApiTokens == { None, "", "secret" }

\* JSON values of refresh_interval_ms in the start response
JsonAbsent == [t |-> "absent", v |-> 0]

JsonNull == [t |-> "null", v |-> 0]

JsonNum(n) == [t |-> "number", v |-> n]

\* responses to the start request: the HTTP status and, of the body, the
\* query_id (None when the key is absent) and refresh_interval_ms
StartResponses ==
    { [ok |-> FALSE, query_id |-> None, refresh_interval_ms |-> JsonAbsent] }
    \cup [ok : {TRUE}, query_id : {None, "", "q-1"},
          refresh_interval_ms : {JsonAbsent, JsonNull, JsonNum(500)}]

\* responses to a poll request: the HTTP status and the body, of which
\* is_finished is "true", "false" or "absent", logs the number of records
\* and page_token the next-page token
PollBodies ==
    [is_finished : {"true", "false", "absent"}, logs : {0, 2},
     page_token : {"", "page-3"}]

PollResponses ==
    { [ok |-> FALSE,
       body |-> [is_finished |-> "absent", logs |-> 0, page_token |-> ""]] }
    \cup [ok : {TRUE}, body : PollBodies]

MetricsResponses == [ok : BOOLEAN, body : {"vector"}]

MetricTypes == { "http", "rpc", "grpc" }


-----------------------------------------------------------------------------
(* Program constants *)

max_poll_attempts == 10

default_refresh_interval_ms == 1000

-----------------------------------------------------------------------------
(* Trace of the side effects of a call *)

\* a requests.get: kind is "start", "poll" or "metrics", ok its HTTP status
\* class, fin whether a poll body reported is_finished true
Request(kind, ok, fin) == [ev |-> kind, ok |-> ok, fin |-> fin]

\* a time.sleep(poll_interval)
Sleep == [ev |-> "sleep", ok |-> TRUE, fin |-> FALSE]

Count(kind) == Cardinality({i \in 1..Len(trace) : trace[i].ev = kind})

NRequests == Len(trace) - Count("sleep")

-----------------------------------------------------------------------------
(* Initial state: the module is loaded, no tool call has been made *)

Init ==
    /\ API_TOKEN \in ApiTokens
    /\ pc = "idle"
    /\ tool = "none"
    /\ args = [simple_time_range |-> <<>>]
    /\ supplied_page_token = ""
    /\ now = <<>>
    /\ start_time = <<>>
    /\ end_time = <<>>
    /\ trace = <<>>
    /\ start_params = <<>>
    /\ start_response = <<>>
    /\ query_id = None
    /\ poll_interval_ms = 0
    /\ attempt = 0
    /\ poll_response = <<>>
    /\ metrics_query = <<>>
    /\ result = <<>>
    /\ raised = NoError

\* no call has been made yet.  A behaviour is one tool invocation: calls
\* share nothing but API_TOKEN, which no call writes, so a later call
\* starts from this same state.
Idle == pc = "idle"

\* the locals and the outcome of a call that begins
Fresh ==
    /\ now' = <<>>
    /\ trace' = <<>>
    /\ start_params' = <<>>
    /\ start_response' = <<>>
    /\ query_id' = None
    /\ poll_interval_ms' = 0
    /\ attempt' = 0
    /\ poll_response' = <<>>
    /\ metrics_query' = <<>>
    /\ result' = <<>>
    /\ raised' = NoError

\* an exception leaves the call
Raise(exc, msg) ==
    /\ pc' = "raised"
    /\ raised' = Error(exc, msg)
    /\ result' = <<>>

\* a value is returned to the caller
Return(value) ==
    /\ pc' = "returned"
    /\ result' = <<value>>
    /\ raised' = NoError

-----------------------------------------------------------------------------
(* parse_simple_time_range called on its own *)

Call_parse_simple_time_range ==
    /\ Idle
    /\ \E s \in Tokens :
         args' = [simple_time_range |-> s]
    /\ tool' = "parse_simple_time_range"
    /\ pc' = "L22"
    /\ supplied_page_token' = ""
    /\ start_time' = <<>>
    /\ end_time' = <<>>
    /\ Fresh
    /\ UNCHANGED API_TOKEN

\* lines 22-41; the clock is read (line 26) only once the token has matched
Run_parse_simple_time_range ==
    /\ pc = "L22"
    /\ tool = "parse_simple_time_range"
    /\ \E clock \in Nows :
         LET out == parse_simple_time_range(args.simple_time_range, clock)
         IN  /\ now' = IF ReMatch(Strip(args.simple_time_range)).matched
                       THEN <<clock>> ELSE <<>>
             /\ IF out.exc = ""
                THEN Return(out.value)
                ELSE Raise(out.exc, out.msg)
    /\ UNCHANGED <<API_TOKEN, tool, args, supplied_page_token, start_time,
                   end_time, trace, start_params, start_response, query_id,
                   poll_interval_ms, attempt, poll_response, metrics_query>>

-----------------------------------------------------------------------------
(* query_logs *)

\* The tool is invoked.  The signature of line 52 binds query, start_time,
\* end_time and simple_time_range; it has no parameter for a pagination
\* token, so the one the caller holds stays with the caller.
Call_query_logs ==
    /\ Idle
    /\ \E q \in Queries, st \in StartTimes, et \in EndTimes,
          sr \in LogRanges, pt \in PageTokens :
         /\ args' = [query |-> q, start_time |-> st, end_time |-> et,
                     simple_time_range |-> sr]
         /\ supplied_page_token' = pt
         /\ start_time' = st
         /\ end_time' = et
    /\ tool' = "query_logs"
    /\ pc' = "L64"
    /\ Fresh
    /\ UNCHANGED API_TOKEN

\* a slip in line 64: the explicit pair wins whenever start_time is given
UseSimpleRange_unless_explicit ==
    args.simple_time_range # <<>> /\ args.start_time = <<>>

\* line 64: `if simple_time_range:`, the truthiness of the string
UseSimpleRange == args.simple_time_range # <<>>

\* lines 64-71: the simple range when it is truthy, else the explicit pair
ResolveTimeRange ==
    /\ pc = "L64"
    /\ IF UseSimpleRange
       THEN \E clock \in Nows :
              LET out == parse_simple_time_range(args.simple_time_range, clock)
              IN  /\ now' = IF ReMatch(Strip(args.simple_time_range)).matched
                            THEN <<clock>> ELSE <<>>
                  /\ IF out.exc = ""
                     THEN /\ start_time' = out.value[1]
                          /\ end_time' = out.value[2]
                          /\ pc' = "L73"
                          /\ UNCHANGED <<result, raised>>
                     ELSE /\ Raise(out.exc, out.msg)
                          /\ UNCHANGED <<start_time, end_time>>
       ELSE LET st == strptime(start_time)
                et == strptime(end_time)
            IN  /\ now' = <<>>
                /\ IF st.ok /\ et.ok
                   THEN /\ start_time' = strftime(st.dt)
                        /\ end_time' = strftime(et.dt)
                        /\ pc' = "L73"
                        /\ UNCHANGED <<result, raised>>
                   ELSE /\ Raise("ValueError", "time data does not match format")
                        /\ UNCHANGED <<start_time, end_time>>
    /\ UNCHANGED <<API_TOKEN, tool, args, supplied_page_token, trace,
                   start_params, start_response, query_id, poll_interval_ms,
                   attempt, poll_response, metrics_query>>

\* a slip in lines 73 and 133: only the empty string is tested
TokenMissing_empty_only == API_TOKEN = ""

\* `not API_TOKEN` of lines 73 and 133
TokenMissing == Falsy(API_TOKEN)

\* lines 73-75
CheckToken ==
    /\ pc = "L73"
    /\ IF TokenMissing
       THEN Raise("ValueError", "CHRONOSPHERE_API_TOKEN environment variable not set")
       ELSE pc' = "L78" /\ UNCHANGED <<result, raised>>
    /\ UNCHANGED <<API_TOKEN, tool, args, supplied_page_token, now, start_time,
                   end_time, trace, start_params, start_response, query_id,
                   poll_interval_ms, attempt, poll_response, metrics_query>>

\* a start request that forwards the caller's pagination token
StartParams_with_page_token ==
    [query |-> args.query, happened_after |-> start_time,
     happened_before |-> end_time, timestamp_sort |-> "DESC",
     page_token |-> supplied_page_token]

\* the params of the start request, lines 79-84; page_token is "" because
\* no such key is sent
StartParams ==
    [query |-> args.query, happened_after |-> start_time,
     happened_before |-> end_time, timestamp_sort |-> "DESC",
     page_token |-> ""]

\* line 89, in milliseconds; the division fails on a JSON null
PollInterval(resp) ==
    IF resp.refresh_interval_ms.t = "absent"
    THEN default_refresh_interval_ms
    ELSE resp.refresh_interval_ms.v

\* a slip in lines 87, 101 and 147: the status is never looked at
raise_for_status_ignored(resp) == FALSE

\* response.raise_for_status(): whether it raises HTTPError
raise_for_status(resp) == ~resp.ok

\* a slip in line 91: `if query_id is None`
QueryIdMissing_none_only(resp) == resp.query_id = None

\* line 91: `if not query_id`
QueryIdMissing(resp) == Falsy(resp.query_id)

\* lines 78-92: the start request, its status, query_id and poll interval
LogsStart ==
    /\ pc = "L78"
    /\ \E resp \in StartResponses :
         /\ trace' = Append(trace, Request("start", resp.ok, FALSE))
         /\ start_params' = <<StartParams>>
         /\ start_response' = <<resp>>
         /\ IF raise_for_status(resp)
            THEN /\ Raise("HTTPError", "start")
                 /\ UNCHANGED <<query_id, poll_interval_ms>>
            ELSE IF resp.refresh_interval_ms.t = "null"
            THEN /\ Raise("TypeError", "unsupported operand type(s) for /")
                 /\ query_id' = resp.query_id
                 /\ UNCHANGED poll_interval_ms
            ELSE /\ query_id' = resp.query_id
                 /\ poll_interval_ms' = PollInterval(resp)
                 /\ IF QueryIdMissing(resp)
                    THEN Raise("ValueError", "Failed to get query_id from start response")
                    ELSE pc' = "L98" /\ UNCHANGED <<result, raised>>
    /\ UNCHANGED <<API_TOKEN, tool, args, supplied_page_token, now, start_time,
                   end_time, attempt, poll_response, metrics_query>>

\* a slip in line 104: anything but an explicit false counts as finished
IsFinished_unless_false(body) == body.is_finished # "false"

\* line 104: result.get("is_finished") == True
IsFinished(body) == body.is_finished = "true"

\* a slip in line 98: range(max_poll_attempts + 1)
PollAttempts_one_more == 0..max_poll_attempts

\* line 98: range(max_poll_attempts)
PollAttempts == 0..(max_poll_attempts - 1)

\* lines 98-105: one iteration of the loop up to its return
LogsPoll ==
    /\ pc = "L98"
    /\ attempt \in PollAttempts
    /\ \E resp \in PollResponses :
         /\ trace' = Append(trace,
                Request("poll", resp.ok,
                        resp.ok /\ resp.body.is_finished = "true"))
         /\ poll_response' = <<resp>>
         /\ IF raise_for_status(resp)
            THEN Raise("HTTPError", "poll")
            ELSE IF IsFinished(resp.body)
            THEN Return(resp.body)
            ELSE pc' = "L106" /\ UNCHANGED <<result, raised>>
    /\ UNCHANGED <<API_TOKEN, tool, args, supplied_page_token, now, start_time,
                   end_time, start_params, start_response, query_id,
                   poll_interval_ms, attempt, metrics_query>>

\* line 106, then the loop takes its next value
LogsSleep ==
    /\ pc = "L106"
    /\ trace' = Append(trace, Sleep)
    /\ attempt' = attempt + 1
    /\ pc' = "L98"
    /\ UNCHANGED <<API_TOKEN, tool, args, supplied_page_token, now, start_time,
                   end_time, start_params, start_response, query_id,
                   poll_interval_ms, poll_response, metrics_query, result,
                   raised>>

\* line 107: the range of line 98 is exhausted
LogsTimeout ==
    /\ pc = "L98"
    /\ attempt \notin PollAttempts
    /\ Raise("TimeoutError", "Logs query did not complete within the maximum polling time")
    /\ UNCHANGED <<API_TOKEN, tool, args, supplied_page_token, now, start_time,
                   end_time, trace, start_params, start_response, query_id,
                   poll_interval_ms, attempt, poll_response, metrics_query>>

-----------------------------------------------------------------------------
(* query_metrics *)

Call_query_metrics ==
    /\ Idle
    /\ \E ty \in MetricTypes :
         args' = [type |-> ty, namespace |-> "ns", environment |-> "prod",
                  mode |-> "live", service |-> "svc", method |-> "Get",
                  interval |-> "5m", simple_time_range |-> <<>>]
    /\ tool' = "query_metrics"
    /\ pc' = "L133"
    /\ supplied_page_token' = ""
    /\ start_time' = <<>>
    /\ end_time' = <<>>
    /\ Fresh
    /\ UNCHANGED API_TOKEN

\* lines 133-135
MetricsCheckToken ==
    /\ pc = "L133"
    /\ IF TokenMissing
       THEN Raise("ValueError", "CHRONOSPHERE_API_TOKEN environment variable not set")
       ELSE pc' = "L137" /\ UNCHANGED <<result, raised>>
    /\ UNCHANGED <<API_TOKEN, tool, args, supplied_page_token, now, start_time,
                   end_time, trace, start_params, start_response, query_id,
                   poll_interval_ms, attempt, poll_response, metrics_query>>

\* lines 140-144: the expression, as the template and the interpolated values
MetricsQuery ==
    CASE args.type = "http" ->
           <<"http_server_handled_total", args.environment, args.mode,
             args.namespace, args.interval>>
      [] args.type = "rpc" ->
           <<"rpc2_server_handled_total", args.environment, args.mode,
             args.namespace, args.service, args.method, args.interval>>
      [] OTHER -> <<>>

\* lines 137-148: one request, its status, the body returned
MetricsRequest ==
    /\ pc = "L137"
    /\ metrics_query' = <<MetricsQuery>>
    /\ \E resp \in MetricsResponses :
         /\ trace' = Append(trace, Request("metrics", resp.ok, FALSE))
         /\ IF raise_for_status(resp)
            THEN Raise("HTTPError", "metrics")
            ELSE Return(resp.body)
    /\ UNCHANGED <<API_TOKEN, tool, args, supplied_page_token, now, start_time,
                   end_time, start_params, start_response, query_id,
                   poll_interval_ms, attempt, poll_response>>

-----------------------------------------------------------------------------

Next ==
    \/ Call_parse_simple_time_range
    \/ Run_parse_simple_time_range
    \/ Call_query_logs
    \/ ResolveTimeRange
    \/ CheckToken
    \/ LogsStart
    \/ LogsPoll
    \/ LogsSleep
    \/ LogsTimeout
    \/ Call_query_metrics
    \/ MetricsCheckToken
    \/ MetricsRequest

Spec == Init /\ [][Next]_vars


-----------------------------------------------------------------------------
(* Properties *)

Terminal == pc \in {"returned", "raised"}

NPolls == Count("poll")

NSleeps == Count("sleep")

IsPoll(i) == trace[i].ev = "poll"

IsSleep(i) == trace[i].ev = "sleep"

\* positions of the polls whose response reported is_finished true
FinishedPolls == {i \in 1..Len(trace) : IsPoll(i) /\ trace[i].fin}

\* positions of the requests answered with a non-success status
FailedRequests == {i \in 1..Len(trace) : ~IsSleep(i) /\ ~trace[i].ok}

\* C1: in query_logs a poll response with is_finished true ends the call at
\* once: it is the last event of the trace (no poll and no sleep follows
\* it), the call has returned and the value returned is exactly that
\* response's body; and query_logs returns in no other way.
C1_FirstFinishedPollReturns ==
    tool = "query_logs" =>
        /\ \A i \in FinishedPolls :
             /\ i = Len(trace)
             /\ pc = "returned"
             /\ result = <<poll_response[1].body>>
             /\ poll_response[1].body.is_finished = "true"
        /\ pc = "returned" =>
             /\ FinishedPolls = {Len(trace)}
             /\ \A i \in 1..(Len(trace) - 1) : ~trace[i].fin

\* C1 witness: the first finished response is the 10th one, after 9 sleeps
C1_Witness ==
    /\ tool = "query_logs"
    /\ pc = "returned"
    /\ NPolls = max_poll_attempts
    /\ NSleeps = max_poll_attempts - 1
    /\ result[1].is_finished = "true"
    /\ result[1].logs = 2

\* C2: a call of query_logs issues at most 10 poll requests; when the 10th
\* response is the first finished one the call returns it; when all 10
\* report not finished the call ends with TimeoutError and no result, and
\* TimeoutError is raised in no other case.
C2_PollCeiling ==
    tool = "query_logs" =>
        /\ NPolls <= 10
        /\ (NPolls = 10 /\ trace[Len(trace)].ev = "poll" /\ trace[Len(trace)].fin)
             => (pc = "returned" /\ result = <<poll_response[1].body>>)
        /\ (Terminal /\ NPolls = 10 /\ FinishedPolls = {} /\ FailedRequests = {})
             => (pc = "raised" /\ raised.exc = "TimeoutError" /\ result = <<>>)
        /\ raised.exc = "TimeoutError"
             => (NPolls = 10 /\ FinishedPolls = {} /\ FailedRequests = {}
                 /\ result = <<>>)

\* C2 witness: ten unfinished polls, then the timeout
C2_Witness ==
    /\ tool = "query_logs"
    /\ pc = "raised"
    /\ raised.exc = "TimeoutError"
    /\ NPolls = 10
    /\ poll_response[1].body.logs = 2

\* C3: when the start request is answered with a non-success status, or
\* with a body whose query_id is absent or empty, query_logs ends with an
\* error, returns nothing and has issued no poll request.
C3_StartFailureNoPoll ==
    (tool = "query_logs" /\ start_response # <<>>
     /\ (~start_response[1].ok \/ start_response[1].query_id \in {None, ""}))
        => /\ pc = "raised"
           /\ raised.exc \in {"HTTPError", "ValueError", "TypeError"}
           /\ ~start_response[1].ok => raised.exc = "HTTPError"
           /\ result = <<>>
           /\ NPolls = 0
           /\ NRequests = 1

\* C3 witness: a successful status with an empty query_id
C3_Witness ==
    /\ tool = "query_logs"
    /\ start_response # <<>>
    /\ start_response[1].ok
    /\ start_response[1].query_id = ""
    /\ start_response[1].refresh_interval_ms.t = "number"
    /\ pc = "raised"

\* C4: with CHRONOSPHERE_API_TOKEN unset, a call of query_logs or of
\* query_metrics never issues an HTTP request and never returns a value:
\* once past its credential check it has raised.
C4_NoTokenNoRequest ==
    (API_TOKEN = None /\ tool \in {"query_logs", "query_metrics"})
        => /\ NRequests = 0
           /\ trace = <<>>
           /\ start_params = <<>>
           /\ metrics_query = <<>>
           /\ pc \in {"L64", "L73", "L133", "raised"}
           /\ result = <<>>

\* C4 witness: query_logs, range resolved, stopped by the credential check
C4_Witness ==
    /\ API_TOKEN = None
    /\ tool = "query_logs"
    /\ pc = "raised"
    /\ raised.msg = "CHRONOSPHERE_API_TOKEN environment variable not set"
    /\ start_time = <<"2", "0", "2", "5", "-", "0", "5", "-", "0", "8", "T",
                      "1", "8", ":", "0", "8", ":", "3", "5", ".", "0", "0",
                      "0", "Z">>

\* C5: in query_logs a non-empty simple_time_range decides the range: the
\* start request carries the pair parse_simple_time_range derives from it
\* and the clock, and start_time / end_time are not parsed (no strptime
\* error, whatever they hold); with an empty simple_time_range the request
\* carries the explicit pair, parsed and reformatted.
C5_SimpleRangeOverrides ==
    tool = "query_logs" =>
        IF args.simple_time_range # <<>>
        THEN /\ raised.msg # "time data does not match format"
             /\ start_params # <<>> =>
                  /\ now # <<>>
                  /\ start_params[1].happened_before = strftime(now[1])
                  /\ <<start_params[1].happened_after,
                       start_params[1].happened_before>>
                     = parse_simple_time_range(args.simple_time_range,
                                               now[1]).value
        ELSE /\ now = <<>>
             /\ start_params # <<>> =>
                  /\ strptime(args.start_time).ok
                  /\ strptime(args.end_time).ok
                  /\ start_params[1].happened_after
                     = strftime(strptime(args.start_time).dt)
                  /\ start_params[1].happened_before
                     = strftime(strptime(args.end_time).dt)

\* C5 witness: "1h" given together with a malformed start_time and a valid
\* end_time; the request goes out with the derived range
C5_Witness ==
    /\ tool = "query_logs"
    /\ args.simple_time_range = <<"1", "h">>
    /\ args.start_time = TS_garbled
    /\ args.end_time = TS_later
    /\ start_params # <<>>
    /\ start_params[1].happened_before # TS_later

\* the whole pattern ^(\d+)([mhdwy])$ : digits, one unit, nothing else
FullMatch(s) ==
    /\ Len(s) >= 2
    /\ \A i \in 1..(Len(s) - 1) : IsDigit(s[i])
    /\ s[Len(s)] \in Units

\* parse_simple_time_range has run on args.simple_time_range
ParseDone == tool = "parse_simple_time_range" /\ Terminal

\* C6: parse_simple_time_range raises the invalid-format ValueError, and
\* returns no range, for every token that does not match the whole pattern
\* ^(\d+)([mhdwy])$ .
C6_RejectsNonMatching ==
    (ParseDone /\ ~FullMatch(args.simple_time_range))
        => /\ pc = "raised"
           /\ raised = Error("ValueError", "Invalid simple_time_range format")
           /\ result = <<>>

C8_HttpFailureIsTerminal ==
    /\ \A i \in FailedRequests :
         /\ i = Len(trace)
         /\ pc = "raised"
         /\ raised.exc = "HTTPError"
         /\ result = <<>>
    /\ Count("start") <= 1
    /\ (tool = "query_metrics" /\ FailedRequests # {}) => Len(trace) = 1
    /\ (tool = "query_metrics" /\ Terminal /\ API_TOKEN = "secret")
         => Len(trace) = 1

\* C8 witness: the 10th poll of query_logs is answered with a failure
C8_Witness ==
    /\ tool = "query_logs"
    /\ NPolls = 10
    /\ NSleeps = 9
    /\ ~trace[Len(trace)].ok
    /\ pc = "raised"
    /\ raised.exc = "HTTPError"

\* N * unit_duration as whole days and seconds, with minute = 60 s,
\* hour = 60 min, day = 24 h, week = 7 d
UnitSeconds(unit) ==
    CASE unit = "m" -> 60
      [] unit = "h" -> 60 * 60
      [] OTHER -> 0

UnitDays(unit) ==
    CASE unit = "d" -> 1
      [] unit = "w" -> 7
      [] OTHER -> 0

DurationDays(n, unit) ==
    IF UnitDays(unit) > 0 THEN n * UnitDays(unit)
    ELSE n \div ((24 * 60 * 60) \div UnitSeconds(unit))

DurationSeconds(n, unit) ==
    IF UnitDays(unit) > 0 THEN 0
    ELSE (n % ((24 * 60 * 60) \div UnitSeconds(unit))) * UnitSeconds(unit)

\* a formatted timestamp read back: its day number and second of the day
ReadOrdinal(ts) ==
    LET dt == strptime(ts).dt IN Ymd2Ord(dt.year, dt.month, dt.day)

ReadSecond(ts) == SecondOfDay(strptime(ts).dt)

\* end - start of a returned pair, as days and seconds
SpanOf(pair) ==
    LET d  == ReadOrdinal(pair[2]) - ReadOrdinal(pair[1])
        sc == ReadSecond(pair[2]) - ReadSecond(pair[1])
    IN  IF sc < 0 THEN <<d - 1, sc + 24 * 60 * 60>> ELSE <<d, sc>>

TokenValue(s) == ToInt(SubSeq(s, 1, Len(s) - 1))

TokenUnit(s) == s[Len(s)]

\* the returned pair is (now - N * unit_duration, now), to the second
RangeIsExact(s) ==
    /\ pc = "returned"
    /\ raised = NoError
    /\ result[1][2] = strftime(now[1])
    /\ strptime(result[1][1]).ok
    /\ strptime(result[1][2]).ok
    /\ SpanOf(result[1])
         = <<DurationDays(TokenValue(s), TokenUnit(s)),
             DurationSeconds(TokenValue(s), TokenUnit(s))>>
    /\ ReadOrdinal(result[1][1]) <= ReadOrdinal(result[1][2])
    /\ SubSeq(result[1][1], Len(result[1][1]) - 4, Len(result[1][1]))
         = <<".", "0", "0", "0", "Z">>

UnsupportedUnitRaised ==
    /\ pc = "raised"
    /\ raised = Error("ValueError", "Unsupported time unit")
    /\ result = <<>>

StartRepresentable(s) ==
    /\ TokenValue(s) <= 999999999 \div (IF TokenUnit(s) = "w" THEN 7 ELSE 1)
    /\ DurationDays(TokenValue(s), TokenUnit(s)) <= 999999999
    /\ LET n == now[1]
           early == SecondOfDay(n)
                      < DurationSeconds(TokenValue(s), TokenUnit(s))
       IN  Ymd2Ord(n.year, n.month, n.day)
             - DurationDays(TokenValue(s), TokenUnit(s))
             - (IF early THEN 1 ELSE 0) >= 1

C10_SleepOnlyBetweenAttempts ==
    tool = "query_logs" =>
        /\ \A i \in 1..Len(trace) : IsSleep(i) =>
             /\ i > 1
             /\ IsPoll(i - 1) /\ trace[i - 1].ok /\ ~trace[i - 1].fin
             /\ i < Len(trace) => IsPoll(i + 1)
             /\ i = Len(trace) => ~Terminal
        /\ raised.exc = "TimeoutError" => NSleeps <= max_poll_attempts - 1

=============================================================================
